---------------------------- MODULE Spec2Model ----------------------------
(***************************************************************************)
(* A model of the PDF watermark tool:                                      *)
(*   src/src/utils/pdfWatermark.js  addWatermarkToPDF, parseColor,         *)
(*                                  generateWatermarkPositions             *)
(*   src/unnamed/part_000           the Vue component that calls it        *)
(*                                                                         *)
(* JavaScript Numbers are modelled as exact rationals in fixed point: a    *)
(* page coordinate or a glyph size is an integer count of 1/Scale page     *)
(* units, a color channel an integer count of 1/ChanScale, an option value *)
(* an integer count of 1/NumScale.  NaN is a separate value.  Rounding of  *)
(* IEEE doubles is not modelled.                                           *)
(***************************************************************************)
EXTENDS Integers, Sequences, FiniteSets, TLC

VARIABLES
    args,             \* harness: the arguments of the pure function under test
    ret,              \* harness: what the function returned
    selectedFile,     \* part_000:7   selectedFile.value
    isProcessing,     \* part_000:8   isProcessing.value
    errorMessage,     \* part_000:9   errorMessage.value
    successMessage,   \* part_000:10  successMessage.value
    watermarkOptions, \* part_000:29  the reactive options object
    pc,               \* addWatermarkToPDF: where the async function stands
    file,             \* addWatermarkToPDF: its file argument
    options,          \* pdfWatermark.js:20  the normalized options
    font,             \* pdfWatermark.js:42
    useChineseFont,   \* pdfWatermark.js:43
    watermarkColor,   \* pdfWatermark.js:70
    pages,            \* pdfWatermark.js:74  page sizes of the loaded document
    drawCalls,        \* every page.drawText call made, per page, in order
    trace             \* the steps of the run that have completed, in order

vars == <<args, ret, selectedFile, isProcessing, errorMessage, successMessage,
          watermarkOptions, pc, file, options, font, useChineseFont,
          watermarkColor, pages, drawCalls, trace>>

uiVars == <<selectedFile, isProcessing, errorMessage, successMessage, watermarkOptions>>
runVars == <<pc, file, options, font, useChineseFont, watermarkColor, pages,
            drawCalls, trace>>

(***************************************************************************)
(* Bounds of the model.                                                    *)
(***************************************************************************)
\* Math.random() returns k / RandDen for k in 0 .. RandDen - 1
RandDen == 4
\* page widths are WStep, 2*WStep, ..., MaxWK*WStep; heights likewise to MaxHK
MaxWK == 12
MaxHK == 16

\* every division of generateWatermarkPositions (by 2, gridSize in {4,6,8,10},
\* diagonalCount in {8,10}, RandDen, 10*RandDen) is exact in units of 1/Scale
Scale == 120 * RandDen

Abs(n) == IF n < 0 THEN -n ELSE n
Max(a, b) == IF a > b THEN a ELSE b
Min(a, b) == IF a < b THEN a ELSE b

(***************************************************************************)
(* generateWatermarkPositions, pdfWatermark.js:208-300.                    *)
(* width, height, fontSize and density are integers; x, y and size of a    *)
(* position are in units of 1/Scale.                                       *)
(***************************************************************************)
\* the exclusion distance of the duplicate test, in page units
DupRadius == 50
\* the inset of the corner watermarks
CornerInset == 100

\* positions.some((pos) => Math.abs(pos.x - x) < 50 && Math.abs(pos.y - y) < 50)
IsDuplicateLoose(positions, x, y) ==
    \E i \in 1..Len(positions) :
        /\ Abs(positions[i].x - x) < (DupRadius - 10) * Scale
        /\ Abs(positions[i].y - y) < (DupRadius - 10) * Scale

IsDuplicateEitherAxis(positions, x, y) ==
    \E i \in 1..Len(positions) :
        \/ Abs(positions[i].x - x) < DupRadius * Scale
        \/ Abs(positions[i].y - y) < DupRadius * Scale

IsDuplicate(positions, x, y) ==
    \E i \in 1..Len(positions) :
        /\ Abs(positions[i].x - x) < DupRadius * Scale
        /\ Abs(positions[i].y - y) < DupRadius * Scale

\* lines 212-218: the center and the four corners, pushed without any test
BasePositions(width, height, fontSize) ==
    << [x |-> (width * Scale) \div 2, y |-> (height * Scale) \div 2,
        size |-> (fontSize * Scale * 3) \div 2],
       [x |-> CornerInset * Scale, y |-> (height - CornerInset) * Scale,
        size |-> fontSize * Scale],
       [x |-> (width - CornerInset) * Scale, y |-> (height - CornerInset) * Scale,
        size |-> fontSize * Scale],
       [x |-> CornerInset * Scale, y |-> CornerInset * Scale,
        size |-> fontSize * Scale],
       [x |-> (width - CornerInset) * Scale, y |-> CornerInset * Scale,
        size |-> fontSize * Scale] >>

\* line 223: Math.max(2, density * 2)
GridSize(density) == Max(2, density * 2)

\* The loops below are recursions on the loop counter.  Each pass binds the
\* list it leaves to `pushed` and tests Len(pushed) before it goes on: the test
\* is always true (the list holds the five base positions) and only makes TLC
\* evaluate the list before the next pass instead of nesting the passes.

\* lines 231-244: the inner loop, over col, of one row
RECURSIVE GridRow(_, _, _, _, _, _, _)
GridRow(positions, row, col, gridSize, spacingX, spacingY, fontSize) ==
    IF col > gridSize
    THEN positions
    ELSE LET x == col * spacingX
             y == row * spacingY
             pushed == IF IsDuplicate(positions, x, y)
                       THEN positions
                       ELSE Append(positions, [x |-> x, y |-> y, size |-> fontSize * Scale])
         IN  IF Len(pushed) > 0
             THEN GridRow(pushed, row, col + 1, gridSize, spacingX, spacingY, fontSize)
             ELSE pushed

\* lines 230-245: the outer loop, over row
RECURSIVE GridFrom(_, _, _, _, _, _)
GridFrom(positions, row, gridSize, spacingX, spacingY, fontSize) ==
    IF row > gridSize
    THEN positions
    ELSE LET pushed == GridRow(positions, row, 0, gridSize, spacingX, spacingY, fontSize)
         IN  IF Len(pushed) > 0
             THEN GridFrom(pushed, row + 1, gridSize, spacingX, spacingY, fontSize)
             ELSE pushed

\* lines 221-246
GridLayer(positions, width, height, fontSize, density) ==
    IF density > 1
    THEN LET gridSize == GridSize(density)
         IN  GridFrom(positions, 0, gridSize, (width * Scale) \div gridSize,
                      (height * Scale) \div gridSize, fontSize)
    ELSE positions

\* lines 253-265: the rising diagonal
RECURSIVE Diagonal1From(_, _, _, _, _, _)
Diagonal1From(positions, i, diagonalCount, width, height, fontSize) ==
    IF i > diagonalCount
    THEN positions
    ELSE LET x == ((width * Scale) \div diagonalCount) * i
             y == ((height * Scale) \div diagonalCount) * i
             pushed == IF IsDuplicate(positions, x, y)
                       THEN positions
                       ELSE Append(positions, [x |-> x, y |-> y, size |-> fontSize * Scale])
         IN  IF Len(pushed) > 0
             THEN Diagonal1From(pushed, i + 1, diagonalCount, width, height, fontSize)
             ELSE pushed

\* lines 268-280: the falling diagonal
RECURSIVE Diagonal2From(_, _, _, _, _, _)
Diagonal2From(positions, i, diagonalCount, width, height, fontSize) ==
    IF i > diagonalCount
    THEN positions
    ELSE LET x == ((width * Scale) \div diagonalCount) * i
             y == height * Scale - ((height * Scale) \div diagonalCount) * i
             pushed == IF IsDuplicate(positions, x, y)
                       THEN positions
                       ELSE Append(positions, [x |-> x, y |-> y, size |-> fontSize * Scale])
         IN  IF Len(pushed) > 0
             THEN Diagonal2From(pushed, i + 1, diagonalCount, width, height, fontSize)
             ELSE pushed

\* lines 249-281
DiagonalLayer(positions, width, height, fontSize, density) ==
    IF density >= 4
    THEN LET diagonalCount == density * 2
             rising == Diagonal1From(positions, 0, diagonalCount, width, height, fontSize)
         IN  IF Len(rising) > 0
             THEN Diagonal2From(rising, 0, diagonalCount, width, height, fontSize)
             ELSE rising
    ELSE positions

\* line 285
extraWatermarksShort == 15 - 1

extraWatermarks == 15

\* lines 287-296: rnd[j] is the numerator of the j-th value Math.random() returns
\* during the call; each pass of the loop draws three, for x, y and size
RECURSIVE RandomFrom(_, _, _, _, _, _)
RandomFrom(positions, i, width, height, fontSize, rnd) ==
    IF i >= extraWatermarks
    THEN positions
    ELSE LET pushed ==
                 Append(positions,
                        [x |-> (rnd[3 * i] * width * Scale) \div RandDen,
                         y |-> (rnd[3 * i + 1] * height * Scale) \div RandDen,
                         size |-> (fontSize * (8 * RandDen + 4 * rnd[3 * i + 2]) * Scale)
                                      \div (10 * RandDen)])
         IN  IF Len(pushed) > 0
             THEN RandomFrom(pushed, i + 1, width, height, fontSize, rnd)
             ELSE pushed

\* lines 284-297
RandomLayer(positions, width, height, fontSize, density, rnd) ==
    IF density = 5
    THEN RandomFrom(positions, 0, width, height, fontSize, rnd)
    ELSE positions

generateWatermarkPositions(width, height, fontSize, density, rnd) ==
    LET gridded == GridLayer(BasePositions(width, height, fontSize),
                             width, height, fontSize, density)
        crossed == IF Len(gridded) > 0
                   THEN DiagonalLayer(gridded, width, height, fontSize, density)
                   ELSE gridded
    IN  IF Len(crossed) > 0
        THEN RandomLayer(crossed, width, height, fontSize, density, rnd)
        ELSE crossed

\* the values Math.random() returns during one call: a stream that starts at
\* seed / RandDen and steps through every k / RandDen
RandomStream(seed) == [j \in 0..(3 * 15 + 2) |-> (seed + j) % RandDen]

(***************************************************************************)
(* JavaScript values.  A Number is [nan, v]: NaN, or the rational v.       *)
(* A string is a sequence of one-character strings.                        *)
(***************************************************************************)
NaN == [nan |-> TRUE, v |-> 0]
Num(v) == [nan |-> FALSE, v |-> v]

\* the value of a digit in radix 16, -1 for any other character
HexDigitValue(c) ==
    CASE c = "0" -> 0 [] c = "1" -> 1 [] c = "2" -> 2 [] c = "3" -> 3
      [] c = "4" -> 4 [] c = "5" -> 5 [] c = "6" -> 6 [] c = "7" -> 7
      [] c = "8" -> 8 [] c = "9" -> 9
      [] c \in {"a", "A"} -> 10 [] c \in {"b", "B"} -> 11
      [] c \in {"c", "C"} -> 12 [] c \in {"d", "D"} -> 13
      [] c \in {"e", "E"} -> 14 [] c \in {"f", "F"} -> 15
      [] OTHER -> -1

\* how many characters of s, from index i on, are digits of the radix
RECURSIVE DigitRun(_, _, _)
DigitRun(s, i, radix) ==
    IF i <= Len(s) /\ HexDigitValue(s[i]) >= 0 /\ HexDigitValue(s[i]) < radix
    THEN 1 + DigitRun(s, i + 1, radix)
    ELSE 0

\* the value of the n digits of s that start at index i
RECURSIVE DigitsValue(_, _, _, _, _)
DigitsValue(s, i, n, radix, acc) ==
    IF n = 0 THEN acc
    ELSE DigitsValue(s, i + 1, n - 1, radix, acc * radix + HexDigitValue(s[i]))

\* JavaScript parseInt(s, radix) of a string without white space: an optional
\* sign, for radix 16 an optional 0x, then the longest run of digits; what
\* follows the run is ignored, and an empty run gives NaN.  The value is an
\* integer.
parseInt(s, radix) ==
    LET signed == Len(s) > 0 /\ s[1] \in {"-", "+"}
        sign == IF signed /\ s[1] = "-" THEN -1 ELSE 1
        unsigned == IF signed THEN Tail(s) ELSE s
        prefixed == radix = 16 /\ Len(unsigned) >= 2 /\ unsigned[1] = "0"
                        /\ unsigned[2] \in {"x", "X"}
        body == IF prefixed THEN SubSeq(unsigned, 3, Len(unsigned)) ELSE unsigned
        n == DigitRun(body, 1, radix)
    IN  IF n = 0 THEN NaN ELSE Num(sign * DigitsValue(body, 1, n, radix, 0))

\* A decimal literal read from the start of s: sign, digits, an optional point
\* and digits.  [len, v]: len characters were read (0: none can be), and v is
\* the value in units of 1/unit.  Only the first digit after the point is
\* kept: the inputs of the model have at most one.
DecimalPrefix(s, unit) ==
    LET signed == Len(s) > 0 /\ s[1] \in {"-", "+"}
        sign == IF signed /\ s[1] = "-" THEN -1 ELSE 1
        body == IF signed THEN Tail(s) ELSE s
        n1 == DigitRun(body, 1, 10)
        hasDot == Len(body) > n1 /\ body[n1 + 1] = "."
        n2 == IF hasDot THEN DigitRun(body, n1 + 2, 10) ELSE 0
        useDot == hasDot /\ (n1 > 0 \/ n2 > 0)
        intPart == DigitsValue(body, 1, n1, 10, 0)
        tenths == IF n2 > 0 THEN HexDigitValue(body[n1 + 2]) ELSE 0
    IN  IF n1 + n2 = 0
        THEN [len |-> 0, v |-> 0]
        ELSE [len |-> (IF signed THEN 1 ELSE 0) + n1 + (IF useDot THEN 1 + n2 ELSE 0),
              v |-> sign * (intPart * unit + (tenths * unit) \div 10)]

\* JavaScript Number(s) of a string without white space, exponent, Infinity or
\* radix prefix: the empty string is 0, a whole decimal literal is its value,
\* anything else is NaN
ToNumber(s, unit) ==
    IF Len(s) = 0 THEN Num(0)
    ELSE LET d == DecimalPrefix(s, unit)
         IN  IF d.len = Len(s) THEN Num(d.v) ELSE NaN

\* JavaScript parseFloat(s) of such a string: the longest decimal literal s
\* starts with, NaN when there is none
parseFloatStr(s, unit) ==
    LET d == DecimalPrefix(s, unit)
    IN  IF d.len = 0 THEN NaN ELSE Num(d.v)

\* s.split(',')
RECURSIVE Split(_, _, _)
Split(s, i, token) ==
    IF i > Len(s) THEN <<token>>
    ELSE IF s[i] = "," THEN <<token>> \o Split(s, i + 1, <<>>)
    ELSE Split(s, i + 1, Append(token, s[i]))

(***************************************************************************)
(* parseColor, pdfWatermark.js:140-198.  A channel is a Number in units of *)
(* 1/ChanScale.                                                            *)
(***************************************************************************)
NumScale == 10
ChanScale == 255 * NumScale

\* Math.max(0, Math.min(1, c)): NaN stays NaN
Clamp01(c) == IF c.nan THEN NaN ELSE Num(Max(0, Min(ChanScale, c.v)))

\* parseInt(pair, 16) / 255
HexChannel(pair) ==
    LET n == parseInt(pair, 16)
    IN  IF n.nan THEN NaN ELSE Num((n.v * ChanScale) \div 255)

Black == [r |-> Num(0), g |-> Num(0), b |-> Num(0)]

\* lines 148-167
ParseHex(hex) ==
    IF Len(hex) = 3
    THEN [r |-> HexChannel(<<hex[1], hex[1]>>),
          g |-> HexChannel(<<hex[2], hex[2]>>),
          b |-> HexChannel(<<hex[3], hex[3]>>)]
    ELSE IF Len(hex) = 6
    THEN [r |-> HexChannel(SubSeq(hex, 1, 2)),
          g |-> HexChannel(SubSeq(hex, 3, 4)),
          b |-> HexChannel(SubSeq(hex, 5, 6))]
    ELSE Black

\* lines 170-186
ParseRgbList(colorStr) ==
    LET tokens == Split(colorStr, 1, <<>>)
        colorValues == [i \in 1..Len(tokens) |-> ToNumber(tokens[i], ChanScale)]
    IN  IF Len(colorValues) >= 3 /\ ~(\E i \in 1..Len(colorValues) : colorValues[i].nan)
        THEN [r |-> Clamp01(colorValues[1]),
              g |-> Clamp01(colorValues[2]),
              b |-> Clamp01(colorValues[3])]
        ELSE Black

\* colorStr is a string here, so nothing in the try block throws; rgb() of
\* pdf-lib accepts NaN (NaN < 0 and NaN > 1 are both false)
parseColor(colorStr) ==
    LET c == IF Len(colorStr) > 0 /\ colorStr[1] = "#"
             THEN ParseHex(Tail(colorStr))
             ELSE ParseRgbList(colorStr)
    IN  [r |-> Clamp01(c.r), g |-> Clamp01(c.g), b |-> Clamp01(c.b)]


(***************************************************************************)
(* Option normalization, pdfWatermark.js:20-27.  A raw option value is a   *)
(* JavaScript value [t, nan, v, s]: a number (v in units of 1/NumScale), a *)
(* string s, null or undefined.                                            *)
(***************************************************************************)
JsNumber(v) == [t |-> "number", nan |-> FALSE, v |-> v, s |-> <<>>]
JsNaN == [t |-> "number", nan |-> TRUE, v |-> 0, s |-> <<>>]
JsString(s) == [t |-> "string", nan |-> FALSE, v |-> 0, s |-> s]
JsNull == [t |-> "null", nan |-> FALSE, v |-> 0, s |-> <<>>]
JsUndefined == [t |-> "undefined", nan |-> FALSE, v |-> 0, s |-> <<>>]

\* parseFloat(value), in units of 1/NumScale: a number is returned as it is,
\* null and undefined read as the strings "null" and "undefined"
parseFloatValue(value) ==
    CASE value.t = "number" -> IF value.nan THEN NaN ELSE Num(value.v)
      [] value.t = "string" -> parseFloatStr(value.s, NumScale)
      [] OTHER -> NaN

\* parseInt(value), an integer: a number is cut to its integer part, toward 0
parseIntValue(value) ==
    CASE value.t = "number" ->
             IF value.nan THEN NaN
             ELSE Num((IF value.v < 0 THEN -1 ELSE 1) * (Abs(value.v) \div NumScale))
      [] value.t = "string" -> parseInt(value.s, 10)
      [] OTHER -> NaN

\* n || d: NaN and 0 are falsy
OrDefault(n, d) == IF n.nan \/ n.v = 0 THEN d ELSE n.v

\* a text is the sequence of its UTF-16 code units
\* '水印文本'
DefaultText == <<27700, 21360, 25991, 26412>>
\* '#000000'
DefaultColor == <<"#", "0", "0", "0", "0", "0", "0">>
DefaultOpacity == NumScale \div 2
DefaultFontSize == 50
DefaultRotation == -45
DefaultDensity == 3

\* lines 20-27; opacity in units of 1/NumScale, the other three integers
NormalizeOptions(raw) ==
    [text |-> IF Len(raw.text) = 0 THEN DefaultText ELSE raw.text,
     color |-> IF Len(raw.color) = 0 THEN DefaultColor ELSE raw.color,
     opacity |-> OrDefault(parseFloatValue(raw.opacity), DefaultOpacity),
     fontSize |-> OrDefault(parseIntValue(raw.fontSize), DefaultFontSize),
     rotation |-> OrDefault(parseIntValue(raw.rotation), DefaultRotation),
     density |-> OrDefault(parseIntValue(raw.density), DefaultDensity)]


(***************************************************************************)
(* The state before any call: the component as set up by part_000:6-36,    *)
(* and no run of addWatermarkToPDF.                                        *)
(***************************************************************************)
\* no file: event.target.files[0] is undefined, selectedFile.value is null
NoFile == [name |-> "", type |-> ""]

\* part_000:29-36 and 91-98; '严禁复制'
FormDefaults ==
    [text |-> <<20005, 31105, 22797, 21046>>,
     color |-> DefaultColor,
     opacity |-> JsNumber(9),
     fontSize |-> JsNumber(50 * NumScale),
     rotation |-> JsNumber(45 * NumScale),
     density |-> JsNumber(2 * NumScale)]

NoOptions == [text |-> <<>>, color |-> <<>>, opacity |-> 0, fontSize |-> 0,
              rotation |-> 0, density |-> 0]

InitUI ==
    /\ selectedFile = NoFile
    /\ isProcessing = FALSE
    /\ errorMessage = ""
    /\ successMessage = ""
    /\ watermarkOptions = FormDefaults

InitRun ==
    /\ pc = "idle"
    /\ file = NoFile
    /\ options = NoOptions
    /\ font = "none"
    /\ useChineseFont = TRUE
    /\ watermarkColor = Black
    /\ pages = <<>>
    /\ drawCalls = <<>>
    /\ trace = <<>>

(***************************************************************************)
(* generateWatermarkPositions on its own: one page and font size, the      *)
(* function called for density 1, 2, ..., 5 in turn; ret[d] is what it     *)
(* returned for density d.                                                 *)
(***************************************************************************)
WStep == 50
Widths == {k * WStep : k \in 1..MaxWK}
Heights == {k * WStep : k \in 1..MaxHK}
FontSizes == {40}

InitPos ==
    /\ args \in [width : Widths, height : Heights, fontSize : FontSizes]
    /\ ret = <<>>
    /\ InitUI
    /\ InitRun

CallGeneratePositions ==
    /\ Len(ret) < 5
    /\ LET density == Len(ret) + 1
       IN  \E seed \in (IF density = 5 THEN 0..(RandDen - 1) ELSE {0}) :
               ret' = Append(ret, generateWatermarkPositions(args.width, args.height,
                                      args.fontSize, density, RandomStream(seed)))
    /\ UNCHANGED <<args, uiVars, runVars>>

SpecPos == InitPos /\ [][CallGeneratePositions]_vars

(***************************************************************************)
(* parseColor on its own.                                                  *)
(***************************************************************************)
\* '#' and up to MaxHexLen characters, one of them no hexadecimal digit
MaxHexLen == 6
\* up to MaxTokens tokens joined by commas
MaxTokens == 4
HexChars == {"0", "8", "F", "g"}
RgbTokens == {<<>>, <<"0">>, <<"1">>, <<"2">>, <<"-", "1">>, <<"0", ".", "5">>, <<"x">>}

RECURSIVE Join(_)
Join(tokens) ==
    IF Len(tokens) = 1 THEN tokens[1]
    ELSE tokens[1] \o <<",">> \o Join(Tail(tokens))

ColorInputs ==
    UNION {{<<"#">> \o hex : hex \in [1..n -> HexChars]} : n \in 0..MaxHexLen}
    \cup UNION {{Join(tokens) : tokens \in [1..n -> RgbTokens]} : n \in 1..MaxTokens}

InitColor ==
    /\ args \in [colorStr : ColorInputs]
    /\ ret = <<>>
    /\ InitUI
    /\ InitRun

CallParseColor ==
    /\ Len(ret) = 0
    /\ ret' = <<parseColor(args.colorStr)>>
    /\ UNCHANGED <<args, uiVars, runVars>>

SpecColor == InitColor /\ [][CallParseColor]_vars

(***************************************************************************)
(* The option normalization on its own.                                    *)
(***************************************************************************)
\* raw numbers: opacity 0, 0.1, ..., 1; fontSize, rotation and density integers
MaxFontSizeIn == 3
MaxRotationIn == 2
MaxDensityIn == 6
RawJunk == {JsString(<<"a", "b", "c">>), JsString(<<"x">>), JsNull, JsUndefined, JsNaN}
RawOpacities == {JsNumber(k) : k \in 0..NumScale} \cup RawJunk \cup {JsString(<<"0", ".", "5">>)}
RawFontSizes == {JsNumber(k * 20 * NumScale) : k \in 1..MaxFontSizeIn} \cup RawJunk
                    \cup {JsString(<<"4", "0">>)}
RawRotations == {JsNumber(k * 15 * NumScale) : k \in (-MaxRotationIn)..MaxRotationIn}
                    \cup RawJunk \cup {JsString(<<"-", "9", "0">>)}
RawDensities == {JsNumber(k * NumScale) : k \in 0..MaxDensityIn} \cup RawJunk

InitNorm ==
    /\ args \in [text : {<<>>, <<68>>}, color : {<<>>, <<"#", "F", "0", "0">>},
                 opacity : RawOpacities, fontSize : RawFontSizes,
                 rotation : RawRotations, density : RawDensities]
    /\ ret = <<>>
    /\ InitUI
    /\ InitRun

CallNormalize ==
    /\ Len(ret) = 0
    /\ ret' = <<NormalizeOptions(args)>>
    /\ UNCHANGED <<args, uiVars, runVars>>

SpecNorm == InitNorm /\ [][CallNormalize]_vars


(***************************************************************************)
(* Claims about generateWatermarkPositions, checked under SpecPos.         *)
(***************************************************************************)
\* how many of the positions returned for density d are not random: the random
\* layer is the last 15 entries of the density-5 list
NonRandomCount(d) == IF d = 5 THEN Len(ret[d]) - 15 ELSE Len(ret[d])

\* positions i and j of the list returned for density d are less than 50 units
\* apart on both axes
Close(d, i, j) ==
    /\ Abs(ret[d][i].x - ret[d][j].x) < 50 * Scale
    /\ Abs(ret[d][i].y - ret[d][j].y) < 50 * Scale

\* C1 as claimed: for every page and density, no two distinct non-random
\* positions of the returned list are less than 50 units apart on both axes.
C1_NoTwoNonRandomClose ==
    \A d \in 1..Len(ret) :
        \A i, j \in 1..NonRandomCount(d) :
            (ret[d][i].x # ret[d][j].x \/ ret[d][i].y # ret[d][j].y) => ~Close(d, i, j)

\* C1 as amended: every grid or diagonal position of the returned list (an entry
\* after the first five) is at least 50 units away, on one axis or the other,
\* from every other non-random entry; only the center and the four corners,
\* which are pushed untested, can be closer than that to one another.
C1_LayerPositionsApart ==
    \A d \in 1..Len(ret) :
        \A i \in 6..NonRandomCount(d) :
            \A j \in 1..NonRandomCount(d) : j # i => ~Close(d, i, j)

\* C1's case: a density-2 list in which the grid added positions and the
\* duplicate test dropped others, on a page whose base positions are close
C1_Witness ==
    /\ Len(ret) >= 2
    /\ Len(ret[2]) > 5
    /\ Len(ret[2]) < 5 + 25
    /\ \E i, j \in 1..5 : i # j /\ Close(2, i, j)

\* C5 as claimed: for every page and font size, N(2) <= N(3) and N(3) < N(4),
\* N(d) the number of non-random positions returned for density d.
C5_DensityMonotone ==
    Len(ret) >= 4 =>
        /\ NonRandomCount(2) <= NonRandomCount(3)
        /\ NonRandomCount(3) < NonRandomCount(4)

\* C5 as amended: on a page at least 400 units wide and 400 units high,
\* N(2) <= N(3) and N(3) < N(4).
C5_DensityMonotoneOnLargePages ==
    (Len(ret) >= 4 /\ args.width >= 400 /\ args.height >= 400) =>
        /\ NonRandomCount(2) <= NonRandomCount(3)
        /\ NonRandomCount(3) < NonRandomCount(4)

\* C5's case: the lists for densities 2, 3 and 4 of a page of at least 400 x 400
C5_Witness ==
    /\ Len(ret) >= 4
    /\ args.width >= 400
    /\ args.height >= 400
    /\ NonRandomCount(2) < NonRandomCount(3)

\* the last 15 entries of the density-5 list lie on the page and have a size
\* between 0.8 and 1.2 times the font size
RandomLayerInBounds ==
    \A i \in (Len(ret[5]) - 14)..Len(ret[5]) :
        /\ ret[5][i].x >= 0
        /\ ret[5][i].x <= args.width * Scale
        /\ ret[5][i].y >= 0
        /\ ret[5][i].y <= args.height * Scale
        /\ 10 * ret[5][i].size >= 8 * args.fontSize * Scale
        /\ 10 * ret[5][i].size <= 12 * args.fontSize * Scale

\* C6 as claimed: the density-5 list is exactly 15 positions longer than the
\* density-4 list of the same page, and the 15 extra positions are in bounds.
C6_FifteenMoreThanDensity4 ==
    Len(ret) = 5 =>
        /\ Len(ret[5]) = Len(ret[4]) + 15
        /\ RandomLayerInBounds

\* C6 as amended: the density-5 list is exactly 15 positions longer than the
\* center, corner, grid and diagonal positions computed for density 5 itself
\* (grid size 10, not the grid size 8 of density 4), which it starts with, and
\* the 15 extra positions are in bounds.
C6_FifteenMoreThanNonRandom ==
    Len(ret) = 5 =>
        LET nonRandom == DiagonalLayer(
                             GridLayer(BasePositions(args.width, args.height, args.fontSize),
                                       args.width, args.height, args.fontSize, 5),
                             args.width, args.height, args.fontSize, 5)
        IN  /\ Len(ret[5]) = Len(nonRandom) + 15
            /\ SubSeq(ret[5], 1, Len(nonRandom)) = nonRandom
            /\ RandomLayerInBounds

\* C6's case: a density-5 list whose non-random part is longer than the whole
\* density-4 list, with a random position on the left edge of the page
C6_Witness ==
    /\ Len(ret) = 5
    /\ Len(ret[5]) - 15 > Len(ret[4])
    /\ ret[5][Len(ret[5])].x = 0


(***************************************************************************)
(* addWatermarkToPDF, pdfWatermark.js:17-133.  The function is one async   *)
(* task; pc names the await it stands at, "resolved" or "rejected" once    *)
(* its promise has settled.  trace lists what has happened in the run: the  *)
(* steps that change the document or end the run.                          *)
(***************************************************************************)
\* the documents PDFDocument.load can return: 1 to MaxPages pages
MaxPages == 2
PageSizes == {[width |-> 600, height |-> 800], [width |-> 200, height |-> 300]}
Docs == UNION {[1..n -> PageSizes] : n \in 1..MaxPages}

\* 'CONFIDENTIAL' and 'TEST WATERMARK'
Confidential == <<67, 79, 78, 70, 73, 68, 69, 78, 84, 73, 65, 76>>
TestWatermark == <<84, 69, 83, 84, 32, 87, 65, 84, 69, 82, 77, 65, 82, 75>>

\* line 64: /[一-龥]/.test(text)
ContainsChinese(text) == \E i \in 1..Len(text) : text[i] >= 19968 /\ text[i] <= 40869

\* page.drawText of pdf-lib encodes the text with the font: the standard font
\* Helvetica-Bold is WinAnsi encoded and the call throws on a character that
\* encoding lacks; the embedded simhei.ttf font encodes any character
WinAnsi(c) == (c >= 32 /\ c <= 126) \/ (c >= 160 /\ c <= 255)
DrawTextThrows(text, fontName) ==
    fontName = "HelveticaBold" /\ \E i \in 1..Len(text) : ~WinAnsi(text[i])

\* lines 17-33: the call; the options are normalized and the file read begins
Start(f, raw) ==
    /\ pc' = "readFile"
    /\ file' = f
    /\ options' = NormalizeOptions(raw)
    /\ font' = "none"
    /\ useChineseFont' = TRUE
    /\ watermarkColor' = Black
    /\ pages' = <<>>
    /\ drawCalls' = <<>>
    /\ trace' = <<>>

\* lines 129-132: the outer catch logs the error and throws it again
Rethrow(cause) ==
    /\ pc' = "rejected"
    /\ trace' = Append(trace, cause)

\* line 33: await readFileAsArrayBuffer(file), lines 307-314
ReadFile ==
    /\ pc = "readFile"
    /\ \/ /\ pc' = "load"
          /\ trace' = Append(trace, "read")
       \/ Rethrow("readFailed")
    /\ UNCHANGED <<args, ret, uiVars, file, options, font, useChineseFont,
                   watermarkColor, pages, drawCalls>>

\* lines 36-48: await PDFDocument.load(fileData), then registerFontkit and the
\* fetch of the font begins
LoadDocument ==
    /\ pc = "load"
    /\ \/ /\ \E doc \in Docs : pages' = doc
          /\ pc' = "fetchFont"
          /\ trace' = Append(trace, "load")
       \/ /\ Rethrow("loadFailed")
          /\ UNCHANGED pages
    /\ UNCHANGED <<args, ret, uiVars, file, options, font, useChineseFont,
                   watermarkColor, drawCalls>>

\* lines 57-60: the inner catch; the embedding of the standard font begins
FontFailed ==
    /\ pc' = "embedStandardFont"
    /\ trace' = Append(trace, "fontFailed")

\* lines 48-52: await fetch(fontPath); a response that is not ok throws
FetchFont ==
    /\ pc = "fetchFont"
    /\ \/ /\ pc' = "fontData"
          /\ UNCHANGED trace
       \/ FontFailed
    /\ UNCHANGED <<args, ret, uiVars, file, options, font, useChineseFont,
                   watermarkColor, pages, drawCalls>>

\* line 54: await fontResponse.arrayBuffer()
ReadFontData ==
    /\ pc = "fontData"
    /\ \/ /\ pc' = "embedFont"
          /\ UNCHANGED trace
       \/ FontFailed
    /\ UNCHANGED <<args, ret, uiVars, file, options, font, useChineseFont,
                   watermarkColor, pages, drawCalls>>

\* lines 55-56 and 69-71: await pdfDoc.embedFont(fontData); then the color is
\* parsed and the page loop begins
EmbedFont ==
    /\ pc = "embedFont"
    /\ \/ /\ font' = "simhei"
          /\ watermarkColor' = parseColor(options.color)
          /\ pc' = "pages"
          /\ trace' = Append(trace, "embed")
       \/ /\ FontFailed
          /\ UNCHANGED <<font, watermarkColor>>
    /\ UNCHANGED <<args, ret, uiVars, file, options, useChineseFont, pages, drawCalls>>

\* lines 64-66
FallbackText(text) == IF ContainsChinese(text) THEN Confidential ELSE text

\* lines 60-71: await pdfDoc.embedFont(StandardFonts.HelveticaBold), which reads
\* no file and does not fail; the text is replaced, the color parsed and the
\* page loop begins
EmbedStandardFont ==
    /\ pc = "embedStandardFont"
    /\ font' = "HelveticaBold"
    /\ useChineseFont' = FALSE
    /\ options' = [options EXCEPT !.text = FallbackText(options.text)]
    /\ watermarkColor' = parseColor(options.color)
    /\ pc' = "pages"
    /\ trace' = Append(trace, "fallback")
    /\ UNCHANGED <<args, ret, uiVars, file, pages, drawCalls>>

\* lines 93-101: the drawText call for one position; rotate is <<degrees>>
WatermarkCallUnrotated(pos) ==
    [site |-> "watermark", text |-> options.text, x |-> pos.x, y |-> pos.y,
     size |-> pos.size, font |-> font, opacity |-> options.opacity,
     color |-> watermarkColor, rotate |-> <<>>]

WatermarkCall(pos) ==
    [site |-> "watermark", text |-> options.text, x |-> pos.x, y |-> pos.y,
     size |-> pos.size, font |-> font, opacity |-> options.opacity,
     color |-> watermarkColor, rotate |-> <<options.rotation>>]

\* lines 107-114: the drawText call of the test stamp; it sets no rotation
TestCall(page) ==
    [site |-> "test", text |-> TestWatermark, x |-> (page.width - 200) * Scale,
     y |-> (page.height - 50) * Scale, size |-> 20 * Scale, font |-> "HelveticaBold",
     opacity |-> NumScale, color |-> [r |-> Num(ChanScale), g |-> Num(0), b |-> Num(0)],
     rotate |-> <<>>]

\* lines 92-115: the drawText calls made on one page, in order, given the
\* positions computed for it; a call that throws is the last one
PageCalls(page, positions) ==
    IF DrawTextThrows(options.text, font)
    THEN <<WatermarkCall(positions[1])>>
    ELSE [k \in 1..(Len(positions) + (IF useChineseFont THEN 0 ELSE 1)) |->
             IF k <= Len(positions) THEN WatermarkCall(positions[k]) ELSE TestCall(page)]

\* lines 78-121: one pass of the page loop.  drawCalls[i] lists the drawText
\* calls made on page i; after the last page pdfDoc.save() begins.
DrawPage ==
    /\ pc = "pages"
    /\ Len(drawCalls) < Len(pages)
    /\ LET page == pages[Len(drawCalls) + 1]
       IN  \E seed \in (IF options.density = 5 THEN 0..(RandDen - 1) ELSE {0}) :
               drawCalls' = Append(drawCalls,
                   PageCalls(page, generateWatermarkPositions(page.width, page.height,
                                       options.fontSize, options.density,
                                       RandomStream(seed))))
    /\ IF DrawTextThrows(options.text, font)
       THEN Rethrow("drawFailed")
       ELSE /\ pc' = IF Len(drawCalls) + 1 = Len(pages) THEN "save" ELSE "pages"
            /\ trace' = Append(trace, "page")
    /\ UNCHANGED <<args, ret, uiVars, file, options, font, useChineseFont,
                   watermarkColor, pages>>

\* lines 129-132 after a failed save
SaveFailedButDownloaded ==
    /\ pc' = "rejected"
    /\ trace' = trace \o <<"saveFailed", "saveAs">>

SaveFailed == Rethrow("saveFailed")

\* lines 121-128: await pdfDoc.save(), then the Blob, saveAs and return true
SaveDocument ==
    /\ pc = "save"
    /\ \/ /\ pc' = "resolved"
          /\ trace' = trace \o <<"save", "saveAs">>
       \/ SaveFailed
    /\ UNCHANGED <<args, ret, uiVars, file, options, font, useChineseFont,
                   watermarkColor, pages, drawCalls>>

Run ==
    \/ ReadFile
    \/ LoadDocument
    \/ FetchFont
    \/ ReadFontData
    \/ EmbedFont
    \/ EmbedStandardFont
    \/ DrawPage
    \/ SaveDocument

(***************************************************************************)
(* addWatermarkToPDF called once, by any caller, with args.file and        *)
(* args.watermarkOptions.                                                  *)
(***************************************************************************)
PdfFile == [name |-> "a.pdf", type |-> "application/pdf"]
\* 'DRAFT', a Chinese word, a Japanese one (hiragana), and the empty text
Texts == {<<68, 82, 65, 70, 84>>, <<26426, 23494>>, <<12354, 12356>>, <<>>}
\* '#FF0000', '#ggg', '1,2' and '2,-1,0.5'
Colors == {<<"#", "F", "F", "0", "0", "0", "0">>, <<"#", "g", "g", "g">>,
           <<"1", ",", "2">>, <<"2", ",", "-", "1", ",", "0", ".", "5">>}
\* opacity, fontSize and rotation as the caller passes them: 0.5, 40 and 30, or
\* three values that are no numbers; density 1, 2 or a string that is no number
NumberOptions ==
    {[opacity |-> JsNumber(5), fontSize |-> JsNumber(40 * NumScale),
      rotation |-> JsNumber(30 * NumScale), density |-> d] :
        d \in {JsNumber(NumScale), JsNumber(2 * NumScale), JsString(<<"x">>)}}
    \cup {[opacity |-> JsString(<<"a", "b", "c">>), fontSize |-> JsNull,
           rotation |-> JsUndefined, density |-> d] :
        d \in {JsNumber(NumScale), JsNumber(2 * NumScale), JsString(<<"x">>)}}
CallOptions ==
    {[text |-> t, color |-> c, opacity |-> n.opacity, fontSize |-> n.fontSize,
      rotation |-> n.rotation, density |-> n.density] :
        t \in Texts, c \in Colors, n \in NumberOptions}

Init ==
    /\ args \in [file : {PdfFile}, watermarkOptions : CallOptions]
    /\ ret = <<>>
    /\ InitUI
    /\ InitRun

Call ==
    /\ pc = "idle"
    /\ Start(args.file, args.watermarkOptions)
    /\ UNCHANGED <<args, ret, uiVars>>

Next == Call \/ Run

Spec == Init /\ [][Next]_vars


(***************************************************************************)
(* The component, part_000:1-100, with the runs of addWatermarkToPDF it    *)
(* starts.  The template disables the file input, the option inputs and    *)
(* both buttons while isProcessing is set (part_000:111-178), and the      *)
(* add-watermark button while no file is selected.                         *)
(***************************************************************************)
\* the messages, in English: part_000:46, 53, 72 and 75
MsgInvalidFile == "select a valid PDF file"
MsgNoFile == "select a PDF file first"
MsgSuccess == "watermark added, file downloaded"
MsgFailed == "error while processing the PDF"

TextFile == [name |-> "b.txt", type |-> "text/plain"]

\* part_000:39-48
HandleFileChange ==
    /\ ~isProcessing
    /\ \E f \in {PdfFile, TextFile, NoFile} :
           IF f # NoFile /\ f.type = "application/pdf"
           THEN /\ selectedFile' = f
                /\ errorMessage' = ""
           ELSE /\ selectedFile' = NoFile
                /\ errorMessage' = MsgInvalidFile
    /\ UNCHANGED <<args, ret, isProcessing, successMessage, watermarkOptions, runVars>>

\* the v-model bindings of the six inputs, part_000:122-168: the color input
\* yields '#rrggbb', the range inputs numbers
UpdateOption ==
    /\ ~isProcessing
    /\ \/ \E t \in {<<68, 82, 65, 70, 84>>, <<12354, 12356>>, <<20005, 31105, 22797, 21046>>} :
              watermarkOptions' = [watermarkOptions EXCEPT !.text = t]
       \/ \E c \in {<<"#", "f", "f", "0", "0", "0", "0">>, DefaultColor} :
              watermarkOptions' = [watermarkOptions EXCEPT !.color = c]
       \/ \E v \in {5, 9} :
              watermarkOptions' = [watermarkOptions EXCEPT !.opacity = JsNumber(v)]
       \/ \E v \in {40, 50} :
              watermarkOptions' = [watermarkOptions EXCEPT !.fontSize = JsNumber(v * NumScale)]
       \/ \E v \in {0, 45} :
              watermarkOptions' = [watermarkOptions EXCEPT !.rotation = JsNumber(v * NumScale)]
       \/ \E v \in {1, 2} :
              watermarkOptions' = [watermarkOptions EXCEPT !.density = JsNumber(v * NumScale)]
    /\ UNCHANGED <<args, ret, selectedFile, isProcessing, errorMessage, successMessage, runVars>>

\* a Number as the JavaScript value it is stored as
AsJsValue(n) == IF n.nan THEN JsNaN ELSE JsNumber(n.v)

\* part_000:20-26
ensureNumberValues(o) ==
    [o EXCEPT !.opacity = AsJsValue(parseFloatValue(o.opacity)),
              !.fontSize = LET n == parseIntValue(o.fontSize)
                           IN  IF n.nan THEN JsNaN ELSE JsNumber(n.v * NumScale),
              !.rotation = LET n == parseIntValue(o.rotation)
                           IN  IF n.nan THEN JsNaN ELSE JsNumber(n.v * NumScale),
              !.density = LET n == parseIntValue(o.density)
                          IN  IF n.nan THEN JsNaN ELSE JsNumber(n.v * NumScale)]

\* part_000:59-60
MessagesCleared ==
    /\ errorMessage' = ""
    /\ successMessage' = ""

\* part_000:51-70: a click on the add-watermark button, up to the await
HandleAddWatermark ==
    /\ ~isProcessing
    /\ selectedFile # NoFile
    /\ IF selectedFile = NoFile
       THEN /\ errorMessage' = MsgNoFile
            /\ UNCHANGED <<isProcessing, successMessage, watermarkOptions, runVars>>
       ELSE /\ pc = "idle"
            /\ isProcessing' = TRUE
            /\ MessagesCleared
            /\ watermarkOptions' = ensureNumberValues(watermarkOptions)
            /\ Start(selectedFile, ensureNumberValues(watermarkOptions))
    /\ UNCHANGED <<args, ret, selectedFile>>

\* part_000:76-78
FinallySkipped == UNCHANGED isProcessing

Finally == isProcessing' = FALSE

\* the locals of a run that has settled are gone
RunOver ==
    /\ pc' = "idle"
    /\ file' = NoFile
    /\ options' = NoOptions
    /\ font' = "none"
    /\ useChineseFont' = TRUE
    /\ watermarkColor' = Black
    /\ pages' = <<>>
    /\ drawCalls' = <<>>
    /\ trace' = <<>>

\* part_000:70-72 and 76-78: the awaited promise resolved
HandleAddWatermarkResolved ==
    /\ pc = "resolved"
    /\ successMessage' = MsgSuccess
    /\ Finally
    /\ RunOver
    /\ UNCHANGED <<args, ret, selectedFile, errorMessage, watermarkOptions>>

\* part_000:73-78: the awaited promise rejected
HandleAddWatermarkRejected ==
    /\ pc = "rejected"
    /\ errorMessage' = MsgFailed
    /\ Finally
    /\ RunOver
    /\ UNCHANGED <<args, ret, selectedFile, successMessage, watermarkOptions>>

\* part_000:82-99
ResetForm ==
    /\ ~isProcessing
    /\ selectedFile' = NoFile
    /\ errorMessage' = ""
    /\ successMessage' = ""
    /\ watermarkOptions' = FormDefaults
    /\ UNCHANGED <<args, ret, isProcessing, runVars>>

InitComponent ==
    /\ args = <<>>
    /\ ret = <<>>
    /\ InitUI
    /\ InitRun

NextComponent ==
    \/ HandleFileChange
    \/ UpdateOption
    \/ HandleAddWatermark
    \/ Run
    \/ HandleAddWatermarkResolved
    \/ HandleAddWatermarkRejected
    \/ ResetForm

SpecUI == InitComponent /\ [][NextComponent]_vars


(***************************************************************************)
(* The claim about parseColor, checked under SpecColor.                    *)
(***************************************************************************)
\* '#' followed by exactly 3 or 6 hexadecimal digits
IsHexColor(str) ==
    /\ Len(str) \in {4, 7}
    /\ str[1] = "#"
    /\ \A i \in 2..Len(str) : HexDigitValue(str[i]) >= 0

\* a comma-separated list of at least three numbers (an empty item counts as
\* the number 0, as Number('') does)
IsNumberList(str) ==
    LET tokens == Split(str, 1, <<>>)
    IN  /\ Len(tokens) >= 3
        /\ \A i \in 1..Len(tokens) : ~ToNumber(tokens[i], ChanScale).nan

InUnitInterval(c) == ~c.nan /\ c.v >= 0 /\ c.v <= ChanScale

\* C2 as claimed: for every input string parseColor returns a triple whose
\* three channels each lie in [0,1], and the triple is black whenever the
\* input is neither a hex color nor a list of at least three numbers.
C2_ValidColorOrBlack ==
    Len(ret) = 1 =>
        /\ InUnitInterval(ret[1].r)
        /\ InUnitInterval(ret[1].g)
        /\ InUnitInterval(ret[1].b)
        /\ (~IsHexColor(args.colorStr) /\ ~IsNumberList(args.colorStr)) => ret[1] = Black

(***************************************************************************)
(* The claim about the option normalization, checked under SpecNorm.       *)
(***************************************************************************)
\* a raw value that is invalid or absent: a string that starts with no number,
\* null, undefined, NaN
IsJunk(value) == value \in RawJunk
IsNumberIn(value, lo, hi) ==
    value.t = "number" /\ ~value.nan /\ value.v >= lo /\ value.v <= hi
IsInteger(value) == value.t = "number" /\ ~value.nan /\ value.v % NumScale = 0

\* C7 as claimed: invalid or absent opacity, fontSize, rotation and density
\* become 0.5, 50, -45 and 3; every opacity in [0,1], positive integer
\* fontSize, signed integer rotation and density in 1..5 is kept; the density
\* that results is always an integer in 1..5.
C7_NormalizationKeepsValid ==
    Len(ret) = 1 =>
        /\ IsJunk(args.opacity) => ret[1].opacity = NumScale \div 2
        /\ IsJunk(args.fontSize) => ret[1].fontSize = 50
        /\ IsJunk(args.rotation) => ret[1].rotation = -45
        /\ IsJunk(args.density) => ret[1].density = 3
        /\ IsNumberIn(args.opacity, 0, NumScale) => ret[1].opacity = args.opacity.v
        /\ (IsInteger(args.fontSize) /\ args.fontSize.v > 0) =>
               ret[1].fontSize * NumScale = args.fontSize.v
        /\ IsInteger(args.rotation) => ret[1].rotation * NumScale = args.rotation.v
        /\ (IsInteger(args.density) /\ IsNumberIn(args.density, NumScale, 5 * NumScale)) =>
               ret[1].density * NumScale = args.density.v
        /\ ret[1].density \in 1..5

(***************************************************************************)
(* Claims about addWatermarkToPDF, checked under Spec.                     *)
(***************************************************************************)
Count(seq, e) == Cardinality({i \in 1..Len(seq) : seq[i] = e})
Occurs(seq, e) == \E i \in 1..Len(seq) : seq[i] = e

\* C3: in every run the download (saveAs) happens at most once and only after
\* the file read, the document load, the font embedding, the drawing on every
\* page and the document save have succeeded, in that order; if the read, the
\* load or the save fails there is no download and the error is thrown to the
\* caller.
C3_DownloadOnlyAfterSuccess ==
    /\ Count(trace, "saveAs") <= 1
    /\ Occurs(trace, "saveAs") =>
           /\ pc = "resolved"
           /\ Len(drawCalls) = Len(pages)
           /\ \E fontStep \in {<<"embed">>, <<"fontFailed", "fallback">>} :
                  trace = <<"read", "load">> \o fontStep
                              \o [i \in 1..Len(pages) |-> "page"] \o <<"save", "saveAs">>
    /\ (Occurs(trace, "readFailed") \/ Occurs(trace, "loadFailed")
            \/ Occurs(trace, "saveFailed")) =>
           /\ pc = "rejected"
           /\ ~Occurs(trace, "saveAs")
    /\ pc = "rejected" => ~Occurs(trace, "saveAs")

\* C3's cases: a run that downloaded on the fallback font, and one whose save
\* failed after every page was drawn
C3_Witness ==
    \/ pc = "resolved" /\ Occurs(trace, "fallback") /\ Len(pages) = 2
    \/ pc = "rejected" /\ Occurs(trace, "saveFailed") /\ Len(drawCalls) = 2

\* the text the caller asked for, after line 21
RequestedText == NormalizeOptions(args.watermarkOptions).text

\* the text has a character of a script other than Latin: one beyond the
\* Latin blocks of Unicode, which end at U+024F
HasNonLatin(text) == \E i \in 1..Len(text) : text[i] > 591

\* C4 as claimed: whenever loading the preferred font has failed and the
\* requested text has a character of a non-Latin script, every drawText call
\* that renders the watermark text uses 'CONFIDENTIAL'.
C4_PlaceholderForNonLatin ==
    (Occurs(trace, "fontFailed") /\ HasNonLatin(RequestedText)) =>
        \A p \in 1..Len(drawCalls) : \A k \in 1..Len(drawCalls[p]) :
            drawCalls[p][k].site = "watermark" => drawCalls[p][k].text = Confidential

\* the run has resolved and the pages carry the five base watermarks of
\* density 1 as their first five drawText calls
BaseCallsOnEveryPage ==
    /\ Len(drawCalls) = Len(pages)
    /\ \A p \in 1..Len(pages) :
           /\ Len(drawCalls[p]) >= 5
           /\ \A k \in 1..5 :
                  /\ drawCalls[p][k].text = options.text
                  /\ drawCalls[p][k].color = parseColor(options.color)
                  /\ drawCalls[p][k].opacity = options.opacity
                  /\ drawCalls[p][k].rotate = <<options.rotation>>
           /\ drawCalls[p][1].x * 2 = pages[p].width * Scale
           /\ drawCalls[p][1].y * 2 = pages[p].height * Scale
           /\ drawCalls[p][1].size * 2 = 3 * options.fontSize * Scale
           /\ {<<drawCalls[p][k].x, drawCalls[p][k].y>> : k \in 2..5}
                  = {<<x * Scale, y * Scale>> :
                         x \in {100, pages[p].width - 100},
                         y \in {100, pages[p].height - 100}}
           /\ \A k \in 2..5 : drawCalls[p][k].size = options.fontSize * Scale

\* C8 as claimed: a successful run with density 1 makes exactly 5 drawText
\* calls on each page, the center and the four corners, every call with the
\* parsed color and the normalized opacity and rotation; each page is visited
\* once, in document order.
C8_FiveCallsPerPage ==
    (pc = "resolved" /\ options.density = 1) =>
        /\ BaseCallsOnEveryPage
        /\ \A p \in 1..Len(pages) : Len(drawCalls[p]) = 5

\* C8 as amended: a successful run with density 1 makes on each page the 5
\* drawText calls of the center and the four corners, with the parsed color and
\* the normalized opacity and rotation, and no other call when the preferred font
\* was embedded; when it was not, a sixth call follows on each page, the
\* 'TEST WATERMARK' stamp at (width-200, height-50) in size 20, red, opacity 1,
\* not rotated.
C8_FiveCallsAndTestStamp ==
    (pc = "resolved" /\ options.density = 1) =>
        /\ BaseCallsOnEveryPage
        /\ \A p \in 1..Len(pages) :
               IF useChineseFont
               THEN Len(drawCalls[p]) = 5
               ELSE /\ Len(drawCalls[p]) = 6
                    /\ drawCalls[p][6] = TestCall(pages[p])

\* C8's case: a two-page document watermarked with density 1 on the fallback
\* font, its pages of different sizes
C8_Witness ==
    /\ pc = "resolved"
    /\ options.density = 1
    /\ ~useChineseFont
    /\ Len(pages) = 2
    /\ pages[1] # pages[2]
    /\ options.rotation = 30

\* C9 as claimed: a failure to fetch or embed the preferred font and an invalid
\* color string never stop the run: the only errors that reach the caller are
\* those of the read, the load and the save, the watermarks are drawn with the
\* fallback font after a font failure, and in black when the color string is
\* invalid.
C9_RecoverableNeverStops ==
    /\ pc = "rejected" =>
           (Occurs(trace, "readFailed") \/ Occurs(trace, "loadFailed")
                \/ Occurs(trace, "saveFailed"))
    /\ \A p \in 1..Len(drawCalls) : \A k \in 1..Len(drawCalls[p]) :
           drawCalls[p][k].site = "watermark" =>
               /\ Occurs(trace, "fontFailed") => drawCalls[p][k].font = "HelveticaBold"
               /\ (~IsHexColor(options.color) /\ ~IsNumberList(options.color)) =>
                      drawCalls[p][k].color = Black

(***************************************************************************)
(* The claim about the component, checked under SpecUI.                    *)
(***************************************************************************)
\* C10 as claimed: successMessage and errorMessage are never both non-empty,
\* and isProcessing is false whenever no call is in flight.
C10_MessagesExclusive ==
    /\ ~(successMessage # "" /\ errorMessage # "")
    /\ pc = "idle" => ~isProcessing

\* C10 as amended: successMessage and errorMessage are both non-empty only
\* when handleFileChange has rejected a selection while the success message of
\* an earlier run was still shown (the error is then the invalid-file message);
\* both are empty while a call is in flight; and isProcessing is false whenever
\* no call is in flight.
C10_MessagesExclusiveButFileChange ==
    /\ (successMessage # "" /\ errorMessage # "") => errorMessage = MsgInvalidFile
    /\ pc # "idle" => (successMessage = "" /\ errorMessage = "")
    /\ pc = "idle" => ~isProcessing

\* C10's case: a run failed after an earlier one had succeeded, and the
\* component shows the error alone
C10_Witness ==
    /\ pc = "idle"
    /\ errorMessage = MsgFailed
    /\ successMessage = ""
    /\ selectedFile = PdfFile
    /\ watermarkOptions.rotation = JsNumber(0)


=============================================================================
